---- MODULE Spec2Model ----
(***************************************************************************)
(* Model of the SoapySDR rate test (SoapySDRRateTest and                    *)
(* runRateTestStreamLoop).  Two variants of the file exist in the source    *)
(* tree: src/SoapyRateTest.cpp and src/unnamed/part_000.  The variable      *)
(* `variant` says which one runs.  The device library is the environment:   *)
(* each library call is a step whose result is chosen from a small set.     *)
(***************************************************************************)
EXTENDS Integers, Sequences, FiniteSets, TLC

\* ---------------------------------------------------------------- bounds
MaxTicks == 1          \* number of clock ticks a run may see
TickMs == 6000         \* milliseconds added by one clock tick
MaxEvents == 2         \* most counted results (OVERFLOW, UNDERFLOW, samples) the running loops see

\* ------------------------------------------------------ library constants
SOAPY_SDR_TX == 0
SOAPY_SDR_RX == 1
SOAPY_SDR_TIMEOUT == -1
SOAPY_SDR_STREAM_ERROR == -2
SOAPY_SDR_OVERFLOW == -4
SOAPY_SDR_TIME_ERROR == -6
SOAPY_SDR_UNDERFLOW == -7
SpinPeriodMs == 300
StatusPeriodMs == 1000
PrintPeriodMs == 5000
SleepMs == 2000

Dirs == {SOAPY_SDR_RX, SOAPY_SDR_TX}
Other(d) == IF d = SOAPY_SDR_RX THEN SOAPY_SDR_TX ELSE SOAPY_SDR_RX
FloatBytes == 4

Variants == {"SoapyRateTest", "part_000"}

\* ------------------------------------------------------------- inputs
\* A channel string as parsed by KwargsFromString: the keys of the map, in
\* the map's (lexicographic) order, each key a sequence of characters.
KwargsInputs == { <<>>, << <<"0">>, <<"0", "1">> >>, << <<"x">> >> }
FormatInputs == {"", "CF32"}
\* The device: the native stream format of each direction.
NativeInputs == {[d \in {SOAPY_SDR_RX, SOAPY_SDR_TX} |->
                    IF d = SOAPY_SDR_RX THEN "CS16" ELSE "CF32"]}
MTUs == {1}

Digits == {"0", "1", "2", "3", "4", "5", "6", "7", "8", "9"}
DigitVal(c) == CASE c = "0" -> 0 [] c = "1" -> 1 [] c = "2" -> 2 [] c = "3" -> 3
                 [] c = "4" -> 4 [] c = "5" -> 5 [] c = "6" -> 6 [] c = "7" -> 7
                 [] c = "8" -> 8 [] OTHER -> 9

\* std::stoi: the value of the longest prefix of digits; no digit at the
\* front is std::invalid_argument, modelled as -1.
RECURSIVE StoiFrom(_, _, _)
StoiFrom(s, i, acc) ==
    IF i > Len(s) \/ s[i] \notin Digits THEN acc
    ELSE StoiFrom(s, i + 1, acc * 10 + DigitVal(s[i]))

Stoi(s) == IF Len(s) = 0 \/ s[1] \notin Digits THEN -1 ELSE StoiFrom(s, 1, 0)

\* SoapySDR::formatToSize: bytes per element of a stream format.
formatToSize(f) == CASE f = "CF32" -> 8 [] f = "CS16" -> 4 [] f = "CS8" -> 2 [] OTHER -> 0

VARIABLES
    variant,        \* which file is running
    kwargs,         \* KwargsFromString(channelStr)
    formatStr,      \* the formatStr argument
    native,         \* the device: direction -> native stream format
    proc,           \* "running", "returned", "aborted" (std::terminate, crash, fatal signal)
    mainpc,         \* position of SoapySDRRateTest
    result,         \* value returned by SoapySDRRateTest
    device,         \* "null", "made", "unmade"
    unmakes,        \* number of Device::unmake calls
    channels,       \* std::vector<size_t> channels
    chanIdx,        \* position of the configuration loop in channels
    setIdx,         \* position inside the loop body
    setterLog,      \* parameter setters called so far: <<name, direction, channel>>
    lateSetter,     \* a setter was called after a setupStream
    format,         \* rxFormat / txFormat
    nativeAsked,    \* per stream: the directions passed to getNativeStreamFormat
    elemSize,       \* rxElemSize / txElemSize
    setupChans,     \* channel list passed to setupStream for each stream
    calls,          \* per stream: the library calls made, runs of read/write as one "rw"
    joined,         \* per thread: join() has returned
    closedWhileRunning, \* closeStream or unmake was called while a stream thread was still running
    handler,        \* sigIntHandler is installed
    loopDone,       \* the signal flag
    clock,          \* high_resolution_clock, ms since the first thread was created
    sleepWake,      \* when sleep(2) ends
    pc,             \* per thread: position of runRateTestStreamLoop
    numElems,       \* per thread: getStreamMTU
    overflows, underflows, totalSamples,
    timeLastPrint, timeLastSpin, timeLastStatus,
    now,            \* per thread: `now` of the current iteration (0 outside the drain)
    ret,            \* per thread: `ret` after readStreamStatus (0 elsewhere)
    statsLines,     \* per thread: statistics lines printed by the running loop
    exitCause       \* per thread: why the loop ended: "none", "flag", "error"

inputVars == <<variant, kwargs, formatStr, native>>
mainVars == <<mainpc, result, device, unmakes, channels, chanIdx, setIdx, setterLog,
              lateSetter, format, nativeAsked, elemSize, setupChans, sleepWake>>
counterVars == <<overflows, underflows, totalSamples>>
timeVars == <<timeLastPrint, timeLastSpin, timeLastStatus, now>>
threadVars == <<pc, numElems, counterVars, timeVars, ret, statsLines, exitCause>>
vars == <<inputVars, proc, mainVars, calls, joined, closedWhileRunning, handler,
          loopDone, clock, threadVars>>

Init ==
    /\ variant \in Variants
    /\ kwargs \in KwargsInputs
    /\ formatStr \in FormatInputs
    /\ native \in NativeInputs
    /\ proc = "running"
    /\ mainpc = "make"
    /\ result = "none"
    /\ device = "null"
    /\ unmakes = 0
    /\ channels = <<>>
    /\ chanIdx = 1
    /\ setIdx = 1
    /\ setterLog = {}
    /\ lateSetter = FALSE
    /\ format = [d \in Dirs |-> ""]
    /\ nativeAsked = [d \in Dirs |-> {}]
    /\ elemSize = [d \in Dirs |-> 0]
    /\ setupChans = [d \in Dirs |-> <<>>]
    /\ calls = [d \in Dirs |-> <<>>]
    /\ joined = [d \in Dirs |-> FALSE]
    /\ closedWhileRunning = FALSE
    /\ handler = FALSE
    /\ loopDone = FALSE
    /\ clock = 0
    /\ sleepWake = 0
    /\ pc = [d \in Dirs |-> "idle"]
    /\ numElems = [d \in Dirs |-> 0]
    /\ overflows = [d \in Dirs |-> 0]
    /\ underflows = [d \in Dirs |-> 0]
    /\ totalSamples = [d \in Dirs |-> 0]
    /\ timeLastPrint = [d \in Dirs |-> 0]
    /\ timeLastSpin = [d \in Dirs |-> 0]
    /\ timeLastStatus = [d \in Dirs |-> 0]
    /\ now = [d \in Dirs |-> 0]
    /\ ret = [d \in Dirs |-> 0]
    /\ statsLines = [d \in Dirs |-> 0]
    /\ exitCause = [d \in Dirs |-> "none"]

\* The locals of runRateTestStreamLoop go out of scope when it returns.
DropLocals(t) ==
    /\ numElems' = [numElems EXCEPT ![t] = 0]
    /\ overflows' = [overflows EXCEPT ![t] = 0]
    /\ underflows' = [underflows EXCEPT ![t] = 0]
    /\ totalSamples' = [totalSamples EXCEPT ![t] = 0]
    /\ timeLastPrint' = [timeLastPrint EXCEPT ![t] = 0]
    /\ timeLastSpin' = [timeLastSpin EXCEPT ![t] = 0]
    /\ timeLastStatus' = [timeLastStatus EXCEPT ![t] = 0]
    /\ statsLines' = [statsLines EXCEPT ![t] = 0]

\* The process ends abnormally (std::terminate, a crash, a fatal signal):
\* every thread stops where it is and its locals are gone.
Abort ==
    /\ proc' = "aborted"
    /\ numElems' = [d \in Dirs |-> 0]
    /\ overflows' = [d \in Dirs |-> 0]
    /\ underflows' = [d \in Dirs |-> 0]
    /\ totalSamples' = [d \in Dirs |-> 0]
    /\ timeLastPrint' = [d \in Dirs |-> 0]
    /\ timeLastSpin' = [d \in Dirs |-> 0]
    /\ timeLastStatus' = [d \in Dirs |-> 0]
    /\ statsLines' = [d \in Dirs |-> 0]
    /\ now' = [d \in Dirs |-> 0]
    /\ ret' = [d \in Dirs |-> 0]
    /\ UNCHANGED <<pc, exitCause>>

\* ------------------------------------------------------- SoapySDRRateTest
\* Mutant: the TX sample rate is not set.
SettersNoTxRate(v) ==
    << <<"setFrequency", SOAPY_SDR_RX>>, <<"setFrequency", SOAPY_SDR_TX>>,
       <<"setSampleRate", SOAPY_SDR_RX>> >>

\* The parameter setters the configuration loop calls for one channel, in
\* order: in src/SoapyRateTest.cpp and in src/unnamed/part_000.
SettersRateTest ==
    << <<"setFrequency", SOAPY_SDR_RX>>, <<"setFrequency", SOAPY_SDR_TX>>,
       <<"setBandwidth", SOAPY_SDR_RX>>, <<"setBandwidth", SOAPY_SDR_TX>>,
       <<"setSampleRate", SOAPY_SDR_RX>>, <<"setSampleRate", SOAPY_SDR_TX>>,
       <<"setGain", SOAPY_SDR_RX>>, <<"setGain", SOAPY_SDR_TX>> >>

SettersPart000 ==
    << <<"setFrequency", SOAPY_SDR_RX>>, <<"setFrequency", SOAPY_SDR_TX>>,
       <<"setSampleRate", SOAPY_SDR_RX>>, <<"setSampleRate", SOAPY_SDR_TX>> >>

Setters(v) == IF v = "SoapyRateTest" THEN SettersRateTest ELSE SettersPart000

\* Mutant: the streams are closed before the threads are joined.
MainOrderCloseFirst(v) ==
    <<"make", "parse", "config", "rxFormat", "rxSetup", "txFormat", "txSetup",
      "signal", "spawnRx", "sleep", "spawnTx", "closeRx", "closeTx", "joinRx", "joinTx",
      "unmake", "scopeExit", "return">>

\* The statements of the try block, in program order: in
\* src/SoapyRateTest.cpp and in src/unnamed/part_000 (which joins rxThread only).
MainOrderRateTest ==
    <<"make", "parse", "config", "rxFormat", "rxSetup", "txFormat", "txSetup",
      "signal", "spawnRx", "sleep", "spawnTx", "joinRx", "joinTx",
      "closeRx", "closeTx", "unmake", "scopeExit", "return">>

MainOrderPart000 ==
    <<"make", "parse", "config", "rxFormat", "rxSetup", "txFormat", "txSetup",
      "signal", "spawnRx", "sleep", "spawnTx", "joinRx",
      "closeRx", "closeTx", "unmake", "scopeExit", "return">>

MainOrder(v) == IF v = "SoapyRateTest" THEN MainOrderRateTest ELSE MainOrderPart000

IndexOf(seq, x) == CHOOSE i \in 1..Len(seq) : seq[i] = x
MainNext(v, p) == MainOrder(v)[IndexOf(MainOrder(v), p) + 1]

\* Mutant: no default channel.
DefaultChannelsNone(parsed) == parsed

\* channels after the parse loop and the default.
DefaultChannels(parsed) == IF parsed = <<>> THEN <<0>> ELSE parsed
ParsedChannels(kw) == [i \in 1..Len(kw) |-> Stoi(kw[i])]

\* The direction whose native format is asked for the stream of direction d.
NativeDir(d) == SOAPY_SDR_RX
StreamFormat(d, fstr, nat) == IF fstr = "" THEN nat[NativeDir(d)] ELSE fstr

\* std::thread objects that are joinable: destroying one calls std::terminate.
Joinable == {d \in Dirs : pc[d] # "idle" /\ ~joined[d]}
ThreadsLive == {d \in Dirs : pc[d] \notin {"idle", "done"}}

Log(d, what) == [calls EXCEPT ![d] = Append(@, what)]
LogRw(d) == IF calls[d] # <<>> /\ calls[d][Len(calls[d])] = "rw" THEN calls
            ELSE Log(d, "rw")

Make ==
    /\ proc = "running" /\ mainpc = "make"
    /\ device' = "made"
    /\ mainpc' = MainNext(variant, "make")
    /\ UNCHANGED <<inputVars, proc, result, unmakes, channels, chanIdx, setIdx, setterLog,
                   lateSetter, format, nativeAsked, elemSize, setupChans, sleepWake,
                   calls, joined, closedWhileRunning, handler, loopDone, clock, threadVars>>

Parse ==
    /\ proc = "running" /\ mainpc = "parse"
    /\ IF \E i \in 1..Len(kwargs) : Stoi(kwargs[i]) < 0
       THEN /\ mainpc' = "catch"
            /\ UNCHANGED channels
       ELSE /\ channels' = DefaultChannels(ParsedChannels(kwargs))
            /\ mainpc' = MainNext(variant, "parse")
    /\ UNCHANGED <<inputVars, proc, result, device, unmakes, chanIdx, setIdx, setterLog,
                   lateSetter, format, nativeAsked, elemSize, setupChans, sleepWake,
                   calls, joined, closedWhileRunning, handler, loopDone, clock, threadVars>>

Config ==
    /\ proc = "running" /\ mainpc = "config"
    /\ IF chanIdx > Len(channels)
       THEN /\ mainpc' = MainNext(variant, "config")
            /\ UNCHANGED <<chanIdx, setIdx, setterLog, lateSetter>>
       ELSE /\ setterLog' = setterLog \cup
                   {<<Setters(variant)[setIdx][1], Setters(variant)[setIdx][2], channels[chanIdx]>>}
            /\ lateSetter' = (lateSetter \/ \E d \in Dirs : calls[d] # <<>>)
            /\ IF setIdx < Len(Setters(variant))
               THEN setIdx' = setIdx + 1 /\ UNCHANGED chanIdx
               ELSE setIdx' = 1 /\ chanIdx' = chanIdx + 1
            /\ UNCHANGED mainpc
    /\ UNCHANGED <<inputVars, proc, result, device, unmakes, channels,
                   format, nativeAsked, elemSize, setupChans, sleepWake,
                   calls, joined, closedWhileRunning, handler, loopDone, clock, threadVars>>

ChooseFormat(d) ==
    /\ proc = "running"
    /\ mainpc = (IF d = SOAPY_SDR_RX THEN "rxFormat" ELSE "txFormat")
    /\ format' = [format EXCEPT ![d] = StreamFormat(d, formatStr, native)]
    /\ nativeAsked' = [nativeAsked EXCEPT ![d] = IF formatStr = "" THEN {NativeDir(d)} ELSE {}]
    /\ elemSize' = [elemSize EXCEPT ![d] = formatToSize(format'[d])]
    /\ mainpc' = MainNext(variant, mainpc)
    /\ UNCHANGED <<inputVars, proc, result, device, unmakes, channels, chanIdx, setIdx,
                   setterLog, lateSetter, setupChans, sleepWake,
                   calls, joined, closedWhileRunning, handler, loopDone, clock, threadVars>>

SetupStream(d) ==
    /\ proc = "running"
    /\ mainpc = (IF d = SOAPY_SDR_RX THEN "rxSetup" ELSE "txSetup")
    /\ calls' = Log(d, "setup")
    /\ setupChans' = [setupChans EXCEPT ![d] = channels]
    /\ mainpc' = MainNext(variant, mainpc)
    /\ UNCHANGED <<inputVars, proc, result, device, unmakes, channels, chanIdx, setIdx,
                   setterLog, lateSetter, format, nativeAsked, elemSize, sleepWake,
                   joined, closedWhileRunning, handler, loopDone, clock, threadVars>>

InstallHandler ==
    /\ proc = "running" /\ mainpc = "signal"
    /\ handler' = TRUE
    /\ mainpc' = MainNext(variant, "signal")
    /\ UNCHANGED <<inputVars, proc, result, device, unmakes, channels, chanIdx, setIdx,
                   setterLog, lateSetter, format, nativeAsked, elemSize, setupChans,
                   sleepWake, calls, joined, closedWhileRunning, loopDone, clock, threadVars>>

Spawn(d) ==
    /\ proc = "running"
    /\ mainpc = (IF d = SOAPY_SDR_RX THEN "spawnRx" ELSE "spawnTx")
    /\ pc' = [pc EXCEPT ![d] = "start"]
    /\ sleepWake' = IF d = SOAPY_SDR_RX THEN clock + SleepMs ELSE sleepWake
    /\ mainpc' = MainNext(variant, mainpc)
    /\ UNCHANGED <<inputVars, proc, result, device, unmakes, channels, chanIdx, setIdx,
                   setterLog, lateSetter, format, nativeAsked, elemSize, setupChans,
                   calls, joined, closedWhileRunning, handler, loopDone, clock,
                   numElems, counterVars, timeVars, ret, statsLines, exitCause>>

Sleep ==
    /\ proc = "running" /\ mainpc = "sleep"
    /\ clock >= sleepWake
    /\ sleepWake' = 0
    /\ mainpc' = MainNext(variant, "sleep")
    /\ UNCHANGED <<inputVars, proc, result, device, unmakes, channels, chanIdx, setIdx,
                   setterLog, lateSetter, format, nativeAsked, elemSize, setupChans,
                   calls, joined, closedWhileRunning, handler, loopDone, clock,
                   threadVars>>

Join(d) ==
    /\ proc = "running"
    /\ mainpc = (IF d = SOAPY_SDR_RX THEN "joinRx" ELSE "joinTx")
    /\ pc[d] = "done"
    /\ joined' = [joined EXCEPT ![d] = TRUE]
    /\ mainpc' = MainNext(variant, mainpc)
    /\ UNCHANGED <<inputVars, proc, result, device, unmakes, channels, chanIdx, setIdx,
                   setterLog, lateSetter, format, nativeAsked, elemSize, setupChans,
                   sleepWake, calls, closedWhileRunning, handler, loopDone, clock, threadVars>>

CloseStream(d) ==
    /\ proc = "running"
    /\ mainpc = (IF d = SOAPY_SDR_RX THEN "closeRx" ELSE "closeTx")
    /\ calls' = Log(d, "close")
    /\ closedWhileRunning' = (closedWhileRunning \/ ThreadsLive # {})
    /\ mainpc' = MainNext(variant, mainpc)
    /\ UNCHANGED <<inputVars, proc, result, device, unmakes, channels, chanIdx, setIdx,
                   setterLog, lateSetter, format, nativeAsked, elemSize, setupChans,
                   sleepWake, joined, handler, loopDone, clock, threadVars>>

Unmake ==
    /\ proc = "running" /\ mainpc = "unmake"
    /\ device' = "unmade"
    /\ unmakes' = unmakes + 1
    /\ closedWhileRunning' = (closedWhileRunning \/ ThreadsLive # {})
    /\ mainpc' = MainNext(variant, "unmake")
    /\ UNCHANGED <<inputVars, proc, result, channels, chanIdx, setIdx,
                   setterLog, lateSetter, format, nativeAsked, elemSize, setupChans,
                   sleepWake, calls, joined, handler, loopDone, clock, threadVars>>

\* End of the try block: txThread and rxThread are destroyed.
ScopeExit ==
    /\ proc = "running" /\ mainpc = "scopeExit"
    /\ IF Joinable # {}
       THEN Abort /\ UNCHANGED mainpc
       ELSE mainpc' = MainNext(variant, "scopeExit") /\ UNCHANGED <<proc, threadVars>>
    /\ UNCHANGED <<inputVars, result, device, unmakes, channels, chanIdx, setIdx,
                   setterLog, lateSetter, format, nativeAsked, elemSize, setupChans,
                   sleepWake, calls, joined, closedWhileRunning, handler, loopDone, clock>>

Return ==
    /\ proc = "running" /\ mainpc = "return"
    /\ result' = "EXIT_FAILURE"
    /\ proc' = "returned"
    /\ UNCHANGED <<inputVars, mainpc, device, unmakes, channels, chanIdx, setIdx,
                   setterLog, lateSetter, format, nativeAsked, elemSize, setupChans,
                   sleepWake, calls, joined, closedWhileRunning, handler, loopDone, clock,
                   threadVars>>

\* Library calls of the try block that may throw.
ThrowPcs == {"make", "config", "rxSetup", "txSetup", "closeRx", "closeTx"}
              \cup (IF formatStr = "" THEN {"rxFormat", "txFormat"} ELSE {})

MainThrow ==
    /\ proc = "running" /\ mainpc \in ThrowPcs
    /\ ~(mainpc = "config" /\ chanIdx > Len(channels))
    /\ IF Joinable # {}
       THEN Abort /\ UNCHANGED mainpc
       ELSE mainpc' = "catch" /\ UNCHANGED <<proc, threadVars>>
    /\ UNCHANGED <<inputVars, result, device, unmakes, channels, chanIdx, setIdx,
                   setterLog, lateSetter, format, nativeAsked, elemSize, setupChans,
                   sleepWake, calls, joined, closedWhileRunning, handler, loopDone, clock>>

Catch ==
    /\ proc = "running" /\ mainpc = "catch"
    /\ unmakes' = unmakes + 1
    /\ device' = IF device = "null" THEN "null" ELSE "unmade"
    /\ closedWhileRunning' = (closedWhileRunning \/ ThreadsLive # {})
    /\ result' = "EXIT_FAILURE"
    /\ proc' = "returned"
    /\ UNCHANGED <<inputVars, mainpc, channels, chanIdx, setIdx,
                   setterLog, lateSetter, format, nativeAsked, elemSize, setupChans,
                   sleepWake, calls, joined, handler, loopDone, clock, threadVars>>

\* ----------------------------------------------------------------- SIGINT
SigInt ==
    /\ proc = "running"
    /\ IF handler
       THEN /\ ~loopDone
            /\ loopDone' = TRUE
            /\ \E onMain \in BOOLEAN :
                 sleepWake' = IF onMain /\ mainpc = "sleep" THEN clock ELSE sleepWake
            /\ UNCHANGED <<proc, threadVars>>
       ELSE /\ Abort
            /\ UNCHANGED <<loopDone, sleepWake>>
    /\ UNCHANGED <<inputVars, mainpc, result, device, unmakes, channels, chanIdx, setIdx,
                   setterLog, lateSetter, format, nativeAsked, elemSize, setupChans,
                   calls, joined, closedWhileRunning, handler, clock>>

Tick ==
    /\ proc = "running"
    /\ mainpc = "sleep" \/ \E d \in Dirs : pc[d] \in {"start", "gen", "rw"}
    /\ clock + TickMs <= MaxTicks * TickMs
    /\ clock' = clock + TickMs
    /\ UNCHANGED <<inputVars, proc, mainVars, calls, joined, closedWhileRunning, handler,
                   loopDone, threadVars>>

\* -------------------------------------------------- runRateTestStreamLoop
\* The sample-generation loop writes two floats at byte offset i of
\* buffMem[0] and of buffMem[1], for every i < numElems.
GenChans == {0, 1}
GenInBounds(nc, es, ne) ==
    \A i \in 0..(ne - 1) :
        /\ \A c \in GenChans : c < nc
        /\ i + 2 * FloatBytes <= es * ne

\* Mutant: the loop ignores the flag.
LoopCondForever(done) == TRUE

\* while (not loopDone)
LoopCond(done) == ~done

\* What the loop does with the value readStream/writeStream returned.
RetClass(r) ==
    CASE r = SOAPY_SDR_TIMEOUT -> "continue"
      [] r = SOAPY_SDR_OVERFLOW -> "overflow"
      [] r = SOAPY_SDR_UNDERFLOW -> "underflow"
      [] r < 0 -> "break"
      [] OTHER -> "samples"

\* Mutant: a TIME_ERROR status is counted as an overflow.
StatusClassCountTimeError(r) ==
    CASE r = SOAPY_SDR_OVERFLOW -> "overflow"
      [] r = SOAPY_SDR_UNDERFLOW -> "underflow"
      [] r = SOAPY_SDR_TIME_ERROR -> "overflow"
      [] OTHER -> "break"

\* What the drain loop does with the value readStreamStatus returned.
StatusClass(r) ==
    CASE r = SOAPY_SDR_OVERFLOW -> "overflow"
      [] r = SOAPY_SDR_UNDERFLOW -> "underflow"
      [] r = SOAPY_SDR_TIME_ERROR -> "again"
      [] OTHER -> "break"

\* Mutant: the counter is one variable shared by both threads (a static).
BumpShared(f, t) == [d \in DOMAIN f |-> f[d] + 1]

Bump(f, t) == [f EXCEPT ![t] = @ + 1]

\* Mutant: the returned count replaces the total instead of being added.
AddSamplesAssign(f, t, r) == [f EXCEPT ![t] = r]

\* totalSamples += ret
AddSamples(f, t, r) == [f EXCEPT ![t] = @ + r]

SpinDue(last, n) == last + SpinPeriodMs < n
StatusDue(last, n) == last + StatusPeriodMs < n
\* Mutant: the statistics block never finds its period elapsed.
PrintDueNever(last, n) == FALSE

PrintDue(last, n) == last + PrintPeriodMs < n

\* Values the device may return, kept inside the bounds of the model.
EventsUsed ==
    LET n(t) == overflows[t] + underflows[t] + totalSamples[t]
    IN  n(SOAPY_SDR_RX) + n(SOAPY_SDR_TX)

RwResults(t) ==
    {SOAPY_SDR_TIMEOUT, SOAPY_SDR_STREAM_ERROR}
      \cup (IF EventsUsed < MaxEvents
            THEN {SOAPY_SDR_OVERFLOW, SOAPY_SDR_UNDERFLOW} ELSE {})
      \cup {n \in 0..numElems[t] : EventsUsed + n <= MaxEvents}

StatusResults(t) ==
    {SOAPY_SDR_TIMEOUT, SOAPY_SDR_TIME_ERROR}
      \cup (IF EventsUsed < MaxEvents
            THEN {SOAPY_SDR_OVERFLOW, SOAPY_SDR_UNDERFLOW} ELSE {})

\* The declarations of the loop state: counters zero, timestamps now().
InitLocals(t) ==
    /\ overflows' = [overflows EXCEPT ![t] = 0]
    /\ underflows' = [underflows EXCEPT ![t] = 0]
    /\ totalSamples' = [totalSamples EXCEPT ![t] = 0]
    /\ timeLastPrint' = [timeLastPrint EXCEPT ![t] = clock]
    /\ timeLastSpin' = [timeLastSpin EXCEPT ![t] = clock]
    /\ timeLastStatus' = [timeLastStatus EXCEPT ![t] = clock]

\* The statistics block at the end of an iteration whose `now` is n.
PrintStats(t, n) ==
    IF PrintDue(timeLastPrint[t], n)
    THEN /\ timeLastPrint' = [timeLastPrint EXCEPT ![t] = n]
         /\ statsLines' = Bump(statsLines, t)
    ELSE UNCHANGED <<timeLastPrint, statsLines>>

Start(t) ==
    /\ proc = "running" /\ pc[t] = "start"
    /\ \E mtu \in MTUs : numElems' = [numElems EXCEPT ![t] = mtu]
    /\ IF variant = "SoapyRateTest"
       THEN /\ pc' = [pc EXCEPT ![t] = "gen"]
            /\ UNCHANGED <<counterVars, timeLastPrint, timeLastSpin, timeLastStatus>>
       ELSE /\ pc' = [pc EXCEPT ![t] = "activate"]
            /\ InitLocals(t)
    /\ UNCHANGED <<inputVars, proc, mainVars, calls, joined, closedWhileRunning, handler,
                   loopDone, clock, now, ret, statsLines, exitCause>>

\* An out-of-bounds write is undefined: the process crashes or goes on.
GenSamples(t) ==
    /\ proc = "running" /\ pc[t] = "gen"
    /\ \/ /\ pc' = [pc EXCEPT ![t] = "activate"]
          /\ InitLocals(t)
          /\ UNCHANGED proc
          /\ UNCHANGED <<numElems, now, ret, statsLines, exitCause>>
       \/ /\ ~GenInBounds(Len(channels), elemSize[t], numElems[t])
          /\ Abort
    /\ UNCHANGED <<inputVars, mainVars, calls, joined, closedWhileRunning, handler,
                   loopDone, clock>>

Activate(t) ==
    /\ proc = "running" /\ pc[t] = "activate"
    /\ calls' = Log(t, "activate")
    /\ pc' = [pc EXCEPT ![t] = "loopTest"]
    /\ UNCHANGED <<inputVars, proc, mainVars, joined, closedWhileRunning, handler,
                   loopDone, clock, numElems, counterVars, timeVars, ret, statsLines,
                   exitCause>>

LoopTest(t) ==
    /\ proc = "running" /\ pc[t] = "loopTest"
    /\ IF LoopCond(loopDone)
       THEN pc' = [pc EXCEPT ![t] = "rw"] /\ UNCHANGED exitCause
       ELSE /\ pc' = [pc EXCEPT ![t] = "deactivate"]
            /\ exitCause' = [exitCause EXCEPT ![t] = "flag"]
    /\ UNCHANGED <<inputVars, proc, mainVars, calls, joined, closedWhileRunning, handler,
                   loopDone, clock, numElems, counterVars, timeVars, ret, statsLines>>

\* One readStream (RX) or writeStream (TX) call returning r, and the rest of
\* the iteration up to the next library call.
ReadWrite(t, r) ==
    /\ proc = "running" /\ pc[t] = "rw"
    /\ r \in RwResults(t)
    /\ calls' = LogRw(t)
    /\ CASE RetClass(r) = "continue" ->
              /\ pc' = [pc EXCEPT ![t] = "loopTest"]
              /\ UNCHANGED <<counterVars, timeVars, statsLines, exitCause>>
         [] RetClass(r) = "overflow" ->
              /\ overflows' = Bump(overflows, t)
              /\ pc' = [pc EXCEPT ![t] = "loopTest"]
              /\ UNCHANGED <<underflows, totalSamples, timeVars, statsLines, exitCause>>
         [] RetClass(r) = "underflow" ->
              /\ underflows' = Bump(underflows, t)
              /\ pc' = [pc EXCEPT ![t] = "loopTest"]
              /\ UNCHANGED <<overflows, totalSamples, timeVars, statsLines, exitCause>>
         [] RetClass(r) = "break" ->
              /\ pc' = [pc EXCEPT ![t] = "deactivate"]
              /\ exitCause' = [exitCause EXCEPT ![t] = "error"]
              /\ UNCHANGED <<counterVars, timeVars, statsLines>>
         [] OTHER ->
              /\ totalSamples' = AddSamples(totalSamples, t, r)
              /\ timeLastSpin' = IF SpinDue(timeLastSpin[t], clock)
                                 THEN [timeLastSpin EXCEPT ![t] = clock] ELSE timeLastSpin
              /\ IF StatusDue(timeLastStatus[t], clock)
                 THEN /\ timeLastStatus' = [timeLastStatus EXCEPT ![t] = clock]
                      /\ now' = [now EXCEPT ![t] = clock]
                      /\ pc' = [pc EXCEPT ![t] = "drain"]
                      /\ UNCHANGED <<timeLastPrint, statsLines>>
                 ELSE /\ PrintStats(t, clock)
                      /\ pc' = [pc EXCEPT ![t] = "loopTest"]
                      /\ UNCHANGED <<timeLastStatus, now>>
              /\ UNCHANGED <<overflows, underflows, exitCause>>
    /\ UNCHANGED <<inputVars, proc, mainVars, joined, closedWhileRunning, handler,
                   loopDone, clock, numElems, ret>>

\* ret = device->readStreamStatus(...)
ReadStatus(t, r) ==
    /\ proc = "running" /\ pc[t] = "drain"
    /\ r \in StatusResults(t)
    /\ ret' = [ret EXCEPT ![t] = r]
    /\ pc' = [pc EXCEPT ![t] = "drainRet"]
    /\ UNCHANGED <<inputVars, proc, mainVars, calls, joined, closedWhileRunning, handler,
                   loopDone, clock, numElems, counterVars, timeVars, statsLines, exitCause>>

\* The if/else chain on ret in the drain loop, then the statistics block.
DrainRet(t) ==
    /\ proc = "running" /\ pc[t] = "drainRet"
    /\ ret' = [ret EXCEPT ![t] = 0]
    /\ CASE StatusClass(ret[t]) = "overflow" ->
              /\ overflows' = Bump(overflows, t)
              /\ pc' = [pc EXCEPT ![t] = "drain"]
              /\ UNCHANGED <<underflows, totalSamples, timeVars, statsLines>>
         [] StatusClass(ret[t]) = "underflow" ->
              /\ underflows' = Bump(underflows, t)
              /\ pc' = [pc EXCEPT ![t] = "drain"]
              /\ UNCHANGED <<overflows, totalSamples, timeVars, statsLines>>
         [] StatusClass(ret[t]) = "again" ->
              /\ pc' = [pc EXCEPT ![t] = "drain"]
              /\ UNCHANGED <<counterVars, timeVars, statsLines>>
         [] OTHER ->
              /\ PrintStats(t, now[t])
              /\ now' = [now EXCEPT ![t] = 0]
              /\ pc' = [pc EXCEPT ![t] = "loopTest"]
              /\ UNCHANGED <<counterVars, timeLastSpin, timeLastStatus>>
    /\ UNCHANGED <<inputVars, proc, mainVars, calls, joined, closedWhileRunning, handler,
                   loopDone, clock, numElems, exitCause>>

Deactivate(t) ==
    /\ proc = "running" /\ pc[t] = "deactivate"
    /\ calls' = Log(t, "deactivate")
    /\ pc' = [pc EXCEPT ![t] = "done"]
    /\ DropLocals(t)
    /\ UNCHANGED <<inputVars, proc, mainVars, joined, closedWhileRunning, handler,
                   loopDone, clock, now, ret, exitCause>>

\* getStreamMTU, activateStream or deactivateStream throws inside a stream
\* thread: nothing catches it (the read and write calls report by return code).
ThreadThrow(t) ==
    /\ proc = "running"
    /\ pc[t] \in {"start", "activate", "deactivate"}
    /\ Abort
    /\ UNCHANGED <<inputVars, mainVars, calls, joined, closedWhileRunning, handler,
                   loopDone, clock>>

ThreadStep(t) ==
    \/ Start(t) \/ GenSamples(t) \/ Activate(t) \/ LoopTest(t)
    \/ (\E r \in RwResults(t) : ReadWrite(t, r))
    \/ (\E r \in StatusResults(t) : ReadStatus(t, r))
    \/ DrainRet(t) \/ Deactivate(t)

MainStep ==
    \/ Make \/ Parse \/ Config
    \/ (\E d \in Dirs : ChooseFormat(d))
    \/ (\E d \in Dirs : SetupStream(d))
    \/ InstallHandler
    \/ (\E d \in Dirs : Spawn(d))
    \/ Sleep
    \/ (\E d \in Dirs : Join(d))
    \/ (\E d \in Dirs : CloseStream(d))
    \/ Unmake \/ ScopeExit \/ Return \/ Catch

Next ==
    \/ MainStep
    \/ MainThrow
    \/ (\E t \in Dirs : ThreadStep(t))
    \/ (\E t \in Dirs : ThreadThrow(t))
    \/ SigInt
    \/ Tick

Spec == Init /\ [][Next]_vars

\* Scheduling: a runnable thread is eventually run, and time passes.
Fairness ==
    /\ WF_vars(MainStep)
    /\ WF_vars(Tick)
    /\ \A t \in Dirs : WF_vars(ThreadStep(t))

FairSpec == Spec /\ Fairness

\* FairSpec for a device whose status queue runs empty: in every drain,
\* readStreamStatus eventually reports that nothing is pending.
DrainFairSpec ==
    Spec /\ Fairness /\ \A t \in Dirs : SF_vars(ReadStatus(t, SOAPY_SDR_TIMEOUT))

\* ------------------------------------------------------------------ claims
LoopPcs == {"loopTest", "rw", "drain", "drainRet"}
InLoop(t) == proc = "running" /\ pc[t] \in LoopPcs
Has(seq, x) == \E i \in 1..Len(seq) : seq[i] = x
Last(seq) == seq[Len(seq)]
Completed == proc = "returned" /\ mainpc = "return"

\* C1: in both variants, both stream threads have finished
\* runRateTestStreamLoop before closeStream is called on either stream and
\* before Device::unmake is called.
C1_ThreadsFinishedBeforeTeardown == ~closedWhileRunning

\* C2: in every run that completes without an exception, each stream sees
\* setupStream, activateStream, zero or more reads/writes, deactivateStream,
\* closeStream, in this order, each of the four exactly once.
FullLifecycles ==
    { <<"setup", "activate", "deactivate", "close">>,
      <<"setup", "activate", "rw", "deactivate", "close">> }

C2_StreamCallOrder == Completed => \A d \in Dirs : calls[d] \in FullLifecycles

C2_Witness == Completed /\ \A d \in Dirs : Has(calls[d], "rw")

\* C3: once SIGINT has set loopDone, both threads eventually leave their
\* loop and call deactivateStream, and SoapySDRRateTest eventually returns
\* (the process may instead have been ended by a throwing call or a crash).
RunOver ==
    \/ proc = "aborted"
    \/ proc = "returned" /\ \A t \in Dirs : Has(calls[t], "deactivate")

C3_LoopBoundedByFlag == (loopDone /\ variant = "SoapyRateTest") ~> RunOver

\* C3 as amended: the same, for the runs in which no thread stays inside
\* the status drain forever.
InDrain(t) == pc[t] \in {"drain", "drainRet"}

C3_LoopBoundedByFlagAndDrain ==
    (\A t \in Dirs : []<>(~InDrain(t)))
        => ((loopDone /\ variant = "SoapyRateTest") ~> RunOver)

C3_Witness ==
    /\ loopDone /\ Completed
    /\ \E t \in Dirs : exitCause[t] = "flag" /\ Has(calls[t], "rw")

\* C4: a step of one stream thread leaves the other thread's counters and
\* timestamps unchanged, and no thread step writes loopDone.
C4_ThreadLocalState ==
    [][\A t \in Dirs :
         (ThreadStep(t) /\ proc' = "running") =>
            /\ overflows'[Other(t)] = overflows[Other(t)]
            /\ underflows'[Other(t)] = underflows[Other(t)]
            /\ totalSamples'[Other(t)] = totalSamples[Other(t)]
            /\ timeLastPrint'[Other(t)] = timeLastPrint[Other(t)]
            /\ timeLastSpin'[Other(t)] = timeLastSpin[Other(t)]
            /\ timeLastStatus'[Other(t)] = timeLastStatus[Other(t)]
            /\ loopDone' = loopDone]_vars

C4_Witness ==
    \E t \in Dirs :
        /\ overflows[t] + underflows[t] + totalSamples[t] > 0
        /\ InLoop(Other(t)) /\ Has(calls[Other(t)], "rw")

\* C5: whenever more than 5 seconds have passed since the last statistics
\* line of a running loop, a statistics line is eventually printed (or the
\* loop ends), whatever readStream/writeStream return (in the runs in which
\* every status drain ends).
StatsOverdue(t) == InLoop(t) /\ timeLastPrint[t] + PrintPeriodMs < clock

C5_StatsEventuallyPrinted ==
    (\A t \in Dirs : []<>(~InDrain(t)))
        => \A t \in Dirs : StatsOverdue(t) ~> ~StatsOverdue(t)

\* C5 as amended: an iteration prints a statistics line exactly when its
\* read/write returned a sample count (>= 0) at a time more than 5 seconds
\* after the last line; it prints at the end of the iteration, after the
\* status drain if there is one.  TIMEOUT, OVERFLOW and UNDERFLOW returns
\* print nothing.
C5_StatsPrintedAfterSamples ==
    [][\A t \in Dirs :
         /\ \A r \in RwResults(t) :
              ReadWrite(t, r) =>
                IF r >= 0 /\ timeLastPrint[t] + PrintPeriodMs < clock
                          /\ pc'[t] = "loopTest"
                THEN statsLines'[t] = statsLines[t] + 1 /\ timeLastPrint'[t] = clock
                ELSE statsLines'[t] = statsLines[t]
         /\ (DrainRet(t) /\ pc'[t] = "loopTest") =>
                IF timeLastPrint[t] + PrintPeriodMs < now[t]
                THEN statsLines'[t] = statsLines[t] + 1 /\ timeLastPrint'[t] = now[t]
                ELSE statsLines'[t] = statsLines[t]]_vars

C5_Witness == \E t \in Dirs : statsLines[t] > 0

\* C6: before the first setupStream every channel has had its frequency,
\* sample rate and gain set for both directions, and no setter is called
\* after the first setupStream.
SomeSetup == \E d \in Dirs : calls[d] # <<>>
AllSet(names) ==
    \A i \in 1..Len(channels) : \A n \in names : \A d \in Dirs :
        <<n, d, channels[i]>> \in setterLog

C6_ConfigBeforeStreaming ==
    /\ SomeSetup => AllSet({"setFrequency", "setSampleRate", "setGain"})
    /\ ~lateSetter

\* C6 as amended: frequency and sample rate, and in SoapyRateTest.cpp also
\* bandwidth and gain.
C6_FreqAndRateBeforeStreaming ==
    /\ SomeSetup => AllSet({"setFrequency", "setSampleRate"})
    /\ (SomeSetup /\ variant = "SoapyRateTest") => AllSet({"setBandwidth", "setGain"})
    /\ ~lateSetter

C6_Witness == (\A d \in Dirs : calls[d] # <<>>) /\ Len(channels) = 2

\* C7: when one direction's read/write returns an error code, that thread
\* calls deactivateStream exactly once and the other direction's thread
\* goes on with its stream until loopDone or its own error: its stream is
\* not closed and the device not released under it.
Count(seq, x) == Cardinality({i \in 1..Len(seq) : seq[i] = x})

C7_IndependentUnderFailure ==
    \A t \in Dirs :
        exitCause[t] = "error" =>
            /\ Count(calls[t], "deactivate") = (IF pc[t] = "done" THEN 1 ELSE 0)
            /\ pc[Other(t)] \in LoopPcs =>
                  ~Has(calls[Other(t)], "close") /\ device = "made"

\* C8: in SoapyRateTest.cpp, a loop test that finds loopDone set goes to
\* deactivateStream without any stream call in between (so a thread that
\* finds it set at its first test makes no read, write or status call),
\* and closeStream is only called on a deactivated stream.
C8_DoneBeforeFirstIteration ==
    [][\A t \in Dirs :
         /\ (loopDone /\ pc[t] = "loopTest" /\ pc'[t] # "loopTest") =>
               pc'[t] = "deactivate" /\ calls'[t] = calls[t]
         /\ (variant = "SoapyRateTest" /\ calls'[t] # calls[t]
               /\ Last(calls'[t]) = "close") => Last(calls[t]) = "deactivate"]_vars

C8_Witness ==
    \E t \in Dirs :
        variant = "SoapyRateTest" /\ calls[t] = <<"setup", "activate", "deactivate", "close">>

\* C9: the channel list handed to setupStream is never empty: [0] when the
\* channel string has no entries, else one entry per key; the same list is
\* used for both streams and for the configuration.
C9_ChannelList ==
    \A d \in Dirs :
        calls[d] # <<>> =>
            /\ setupChans[d] # <<>>
            /\ kwargs = <<>> => setupChans[d] = <<0>>
            /\ kwargs # <<>> => Len(setupChans[d]) = Len(kwargs)
            /\ setupChans[d] = channels
            /\ {rec[3] : rec \in setterLog} = {channels[i] : i \in 1..Len(channels)}

C9_Witness ==
    /\ calls[SOAPY_SDR_TX] # <<>>
    /\ kwargs = <<>>
    /\ setupChans[SOAPY_SDR_RX] = setupChans[SOAPY_SDR_TX]

\* C10: with no format string each stream uses the native format of its own
\* direction; with a format string both use that string; each element size
\* is formatToSize of the format used.
C10_FormatPerDirection ==
    \A d \in Dirs :
        calls[d] # <<>> =>
            /\ format[d] = (IF formatStr = "" THEN native[d] ELSE formatStr)
            /\ elemSize[d] = formatToSize(format[d])

\* C11: no readStream, writeStream, readStreamStatus, deactivateStream or
\* closeStream is made once Device::unmake has released the device, and
\* SoapySDRRateTest returns (normally or from the catch block) with
\* Device::unmake called exactly once.
DeviceCall(t) ==
    \/ \E r \in RwResults(t) : ReadWrite(t, r)
    \/ \E r \in StatusResults(t) : ReadStatus(t, r)
    \/ Deactivate(t)
    \/ CloseStream(t)

C11_UnmakeOnceAndLast ==
    [][/\ device = "unmade" => \A t \in Dirs : ~DeviceCall(t)
       /\ proc' = "returned" => unmakes' = 1]_vars

\* C12: totalSamples is zero when the loop is entered, every
\* readStream/writeStream return adds its value when it is >= 0 and nothing
\* when it is negative, and readStreamStatus and the rest of the loop leave
\* it unchanged: it is the sum of the non-negative returns so far and never
\* decreases while the loop runs.
StatusStep(t) == (\E r \in StatusResults(t) : ReadStatus(t, r)) \/ DrainRet(t)

C12_TotalSamplesIsSum ==
    [][\A t \in Dirs :
         /\ Activate(t) => totalSamples'[t] = 0
         /\ \A r \in RwResults(t) :
              ReadWrite(t, r) =>
                totalSamples'[t] = totalSamples[t] + (IF r >= 0 THEN r ELSE 0)
         /\ (StatusStep(t) \/ LoopTest(t)) => totalSamples'[t] = totalSamples[t]
         /\ (InLoop(t) /\ proc' = "running" /\ pc'[t] \in LoopPcs) =>
                totalSamples'[t] >= totalSamples[t]]_vars

\* A total made of two returns of one sample each.
C12_Witness ==
    \E t \in Dirs : InLoop(t) /\ totalSamples[t] = 2 /\ numElems[t] = 1

\* C13: overflows and underflows are zero when the loop is entered; an
\* OVERFLOW (UNDERFLOW) returned by readStream/writeStream or by
\* readStreamStatus adds exactly one to overflows (underflows) and nothing
\* to the other counter; any other result, TIMEOUT and TIME_ERROR included,
\* changes neither; the status drain goes on after OVERFLOW, UNDERFLOW and
\* TIME_ERROR and stops at the first other result.
One(b) == IF b THEN 1 ELSE 0

C13_FlowCounters ==
    [][\A t \in Dirs :
         /\ Activate(t) => overflows'[t] = 0 /\ underflows'[t] = 0
         /\ \A r \in RwResults(t) :
              ReadWrite(t, r) =>
                /\ overflows'[t] = overflows[t] + One(r = SOAPY_SDR_OVERFLOW)
                /\ underflows'[t] = underflows[t] + One(r = SOAPY_SDR_UNDERFLOW)
         /\ DrainRet(t) =>
                /\ overflows'[t] = overflows[t] + One(ret[t] = SOAPY_SDR_OVERFLOW)
                /\ underflows'[t] = underflows[t] + One(ret[t] = SOAPY_SDR_UNDERFLOW)
                /\ pc'[t] = (IF ret[t] \in {SOAPY_SDR_OVERFLOW, SOAPY_SDR_UNDERFLOW,
                                            SOAPY_SDR_TIME_ERROR}
                             THEN "drain" ELSE "loopTest")
         /\ ((\E r \in StatusResults(t) : ReadStatus(t, r)) \/ LoopTest(t)) =>
                overflows'[t] = overflows[t] /\ underflows'[t] = underflows[t]]_vars

\* Both counters counted, inside a status drain.
C13_Witness ==
    \E t \in Dirs : pc[t] = "drain" /\ overflows[t] = 1 /\ underflows[t] = 1

\* C14: SoapySDRRateTest returns EXIT_SUCCESS when it reaches its normal
\* return (threads joined, streams closed, device released, no exception)
\* and EXIT_FAILURE only from the catch block.
C14_ResultTellsOutcome ==
    proc = "returned" =>
        result = (IF mainpc = "return" THEN "EXIT_SUCCESS" ELSE "EXIT_FAILURE")

\* C15: every write of the sample-generation loop is inside the buffers
\* allocated for the stream: the channel buffers it indexes exist and the
\* two floats written at byte offset i fit in elemSize*numElems bytes.
C15_GenerationInBounds ==
    [][\A t \in Dirs :
         GenSamples(t) => GenInBounds(Len(channels), elemSize[t], numElems[t])]_vars

====
